---- MODULE Spec2Model ----
(***************************************************************************)
(* Model of the rootbeer data pipeline: the buffer source (Buffer.cxx),    *)
(* the producer loops rb::File::Attach and rb::Online::Attach, the event   *)
(* processing of rb::Event::Process (Event.cxx) and the user unpacker      *)
(* (user/User.cxx), run by one consumer thread (id 0, the interpreter      *)
(* thread that issues the attach calls) and the producer threads, one per  *)
(* connector object (ids 1..MaxConn).                                      *)
(***************************************************************************)
EXTENDS Integers, FiniteSets, Sequences, TLC

\* Bounds of the model.
MaxConn == 2   \* connector objects created in one behaviour
MaxBuf  == 2   \* buffers the data sources deliver in one behaviour
MaxVal  == 2   \* distinct payload values of a buffer
NBITS   == 2   \* the template argument of the rb::BitHist<NBITS> of the model
MaxHist == 2   \* histograms created in one behaviour
MaxFill == 2   \* Fill() and FillAll() calls in one behaviour
MaxSnap == 2   \* copies GetHist() returns in one behaviour

VARIABLES
  fConnector,  \* BufferSource::fConnector: 0 (null) or the id of the connector
  conn,        \* connector objects: kind, kStopAtEnd, fRun, live
  thr,         \* producer threads (one per connector): position and locals
  nConn,       \* number of connector objects created so far
  remaining,   \* buffers the data source still delivers in this behaviour
  fileOpen,    \* whether the last OpenFile() of the buffer source succeeded
  fBuffer,     \* BufferSource::fBuffer, the staged raw buffer
  gCINTMutex,  \* set of thread ids holding the interpreter lock
  gDataMutex,  \* set of thread ids holding the event-record lock
  data,        \* per event: the user object DoProcess writes (raw, cal)
  tree,        \* per event: the row committed by fTree->Fill()
  seen,        \* per event: the row read by the last evaluation pass
  mainPc,      \* position of the consumer thread
  mainCont,    \* where the consumer continues after the Unattach it is in
  mainOp,      \* the attach-interface call the consumer is in, or its last one
  stopArg,     \* the stop_at_end argument of the AttachFile call in progress
  joined,      \* how the thread ended that this call's Unattach joined, if any
  lastErr,     \* the error that call reported to its caller ("none" if none)
  fgList,      \* rb::Hist::fgList: the histograms, in the order of their creation
  gDirectory,  \* positions in fgList of the histograms gDirectory lists
  fgTree,      \* rb::Hist::fgTree: the committed row the formulas are evaluated on
  nFill,       \* number of Fill() and FillAll() calls so far
  hOp,         \* the last histogram call: what, on which histogram, its result
  filled,      \* per event: the FillAll() passes of its manager so far
  fgMutex,     \* rb::Hist::fgMutex: set of thread ids holding the global histogram lock
  pPc,         \* position of the thread that runs rb::Hist::FillAll()
  pIdx,        \* position in fgList of the iterator of the FillAll() pass
  pBit,        \* loop index i of the DoFill() in progress
  pDone,       \* positions in fgList of the histograms this pass called DoFill() on
  cons,        \* interpreter-side calls on histograms: position, call, arguments
  snaps,       \* the copies GetHist() has returned, in the order they were made
  cleared      \* positions in fgList of the histograms Clear() was called on

pipeVars == <<fConnector, conn, thr, nConn, remaining, fileOpen, fBuffer, gCINTMutex,
              gDataMutex, data, tree, seen, mainPc, mainCont, mainOp, stopArg, joined, lastErr>>

histVars == <<fgList, gDirectory, fgTree, nFill, hOp>>

mgrVars == <<filled>>

lockVars == <<fgMutex, pPc, pIdx, pBit, pDone, cons, snaps, cleared>>

vars == <<pipeVars, histVars, mgrVars, lockVars>>

ConnIds == 1..MaxConn
Vals    == 1..MaxVal

\* The event types registered in rb::Rint::RegisterEvents, in the order
\* rb::Midas::UnpackBuffer processes them.
Events == <<"gamma", "hi", "coinc">>
EventSet == {Events[i] : i \in 1..Len(Events)}

\* The interpreter-side callers of histogram functions; the thread of
\* FillAll() has id 0.
Consumers == {1, 2}

\* A caller that is in no histogram call.
NoCall == [pc |-> "idle", op |-> "none", h |-> 0, text |-> ""]

\* The build: Makefile.user defines MIDAS_BUFFERS; MIDAS_ONLINE is defined
\* when MIDASSYS is set, the only build in which AttachOnline starts anything.
MIDAS_ONLINE == TRUE

NoRow == [raw |-> 0, cal |-> 0]

NoConn == [kind |-> "none", kStopAtEnd |-> FALSE, fRun |-> FALSE, live |-> FALSE]

NoThread == [pc |-> "unborn", ev |-> 0, ok |-> FALSE, passes |-> 0, bad |-> 0,
             badBuf |-> FALSE, retry |-> FALSE, row0 |-> NoRow, exit |-> "none"]

\* A thread whose function has returned for the given reason.
Exited(why) == [NoThread EXCEPT !.pc = "exited", !.exit = why]

NoBuffer == [id |-> "NONE", valid |-> FALSE, val |-> 0]

Alive(t) == thr[t].pc \notin {"unborn", "exited"}

Init ==
  /\ fConnector = 0
  /\ conn = [c \in ConnIds |-> NoConn]
  /\ thr = [t \in ConnIds |-> NoThread]
  /\ nConn = 0
  /\ remaining = MaxBuf
  /\ fileOpen = FALSE
  /\ fBuffer = NoBuffer
  /\ gCINTMutex = {}
  /\ gDataMutex = {}
  /\ data = [e \in EventSet |-> NoRow]
  /\ tree = [e \in EventSet |-> NoRow]
  /\ seen = [e \in EventSet |-> NoRow]
  /\ mainPc = "ready"
  /\ mainCont = "ready"
  /\ mainOp = "none"
  /\ stopArg = FALSE
  /\ joined = "none"
  /\ lastErr = "none"
  /\ fgList = <<>>
  /\ gDirectory = {}
  /\ fgTree = [e |-> 0, g |-> 0]
  /\ nFill = 0
  /\ hOp = [op |-> "none", ret |-> 0, err |-> "none"]
  /\ filled = [e \in EventSet |-> 0]
  /\ fgMutex = {}
  /\ pPc = "idle"
  /\ pIdx = 0
  /\ pBit = 0
  /\ pDone = {}
  /\ cons = [c \in Consumers |-> NoCall]
  /\ snaps = <<>>
  /\ cleared = {}

(***************************************************************************)
(* The consumer thread: the public attach interface (Rootbeer.cxx) and the *)
(* buffer source it drives (Buffer.cxx).                                   *)
(***************************************************************************)

\* rb::Unattach() called from the interpreter.
CallUnattach ==
  /\ mainPc = "ready"
  /\ mainOp' = "Unattach"
  /\ joined' = "none"
  /\ lastErr' = "none"
  /\ mainPc' = "unattach"
  /\ mainCont' = "ready"
  /\ UNCHANGED <<fConnector, conn, thr, nConn, remaining, fileOpen, fBuffer, gCINTMutex,
                 gDataMutex, data, tree, seen, stopArg>>
  /\ UNCHANGED <<histVars, mgrVars, lockVars>>

\* The first statement of rb::AttachFile: rb::Unattach().
FirstOfAttachFile_Open == "openfile"
FirstOfAttachFile == "unattach"

\* rb::AttachFile(filename, stop_at_end): rb::Unattach(), then the file
\* connection is created and run (BufferSource::RunFile).
CallAttachFile ==
  /\ mainPc = "ready"
  /\ nConn < MaxConn
  /\ mainOp' = "AttachFile"
  /\ \E stop \in BOOLEAN : stopArg' = stop
  /\ joined' = "none"
  /\ lastErr' = "none"
  /\ mainPc' = FirstOfAttachFile
  /\ mainCont' = "runfile"
  /\ UNCHANGED <<fConnector, conn, thr, nConn, remaining, fileOpen, fBuffer, gCINTMutex,
                 gDataMutex, data, tree, seen>>
  /\ UNCHANGED <<histVars, mgrVars, lockVars>>

\* rb::AttachOnline(host, ...): with MIDAS_ONLINE rb::Unattach() and then the
\* online connection is created and run; without it only a message is printed.
CallAttachOnline ==
  /\ mainPc = "ready"
  /\ nConn < MaxConn
  /\ mainOp' = "AttachOnline"
  /\ joined' = "none"
  /\ lastErr' = "none"
  /\ IF MIDAS_ONLINE
       THEN mainPc' = "unattach" /\ mainCont' = "runonline"
       ELSE mainPc' = "ready" /\ mainCont' = "ready"
  /\ UNCHANGED <<fConnector, conn, thr, nConn, remaining, fileOpen, fBuffer, gCINTMutex,
                 gDataMutex, data, tree, seen, stopArg>>
  /\ UNCHANGED <<histVars, mgrVars, lockVars>>

\* rb::AttachList(filename): rb::Unattach(), then BufferSource::RunList.
CallAttachList ==
  /\ mainPc = "ready"
  /\ mainOp' = "AttachList"
  /\ joined' = "none"
  /\ lastErr' = "none"
  /\ mainPc' = "unattach"
  /\ mainCont' = "runlist"
  /\ UNCHANGED <<fConnector, conn, thr, nConn, remaining, fileOpen, fBuffer, gCINTMutex,
                 gDataMutex, data, tree, seen, stopArg>>
  /\ UNCHANGED <<histVars, mgrVars, lockVars>>

\* BufferSource::Unattach() stops the connector fConnector holds, if any:
\* fConnector.Stop().
HolderSet_Always == TRUE
HolderSet == fConnector # 0

StopNeeded_Never == FALSE
StopNeeded == HolderSet

\* TThread::Join() in ~Connector returns once the thread has exited.
ThreadJoined_NoWait(t) == TRUE
ThreadJoined(t) == ~Alive(t)

\* ~Connector line 21: fRun = kFALSE.
StopFlag_Unset == TRUE
StopFlag == FALSE

\* BufferSource::Unattach(): fConnector.Stop() destroys the connector if there
\* is one; ~Connector first clears fRun (Buffer.cxx line 21).
Unattach_Stop ==
  /\ mainPc = "unattach"
  /\ IF StopNeeded
       THEN /\ conn' = [conn EXCEPT ![fConnector].fRun = StopFlag]
            /\ mainPc' = "join"
       ELSE /\ mainPc' = mainCont
            /\ UNCHANGED conn
  /\ UNCHANGED <<fConnector, thr, nConn, remaining, fileOpen, fBuffer, gCINTMutex,
                 gDataMutex, data, tree, seen, mainCont, mainOp, stopArg, joined, lastErr>>
  /\ UNCHANGED <<histVars, mgrVars, lockVars>>

\* ~Connector: fThread->Join() (Buffer.cxx line 22), after which the connector
\* object is gone and fConnector is null.
Connector_Join ==
  /\ mainPc = "join"
  /\ ThreadJoined(fConnector)
  /\ conn' = [conn EXCEPT ![fConnector] =
                       IF Alive(fConnector) THEN [@ EXCEPT !.live = FALSE] ELSE NoConn]
  /\ thr' = [thr EXCEPT ![fConnector] = IF Alive(fConnector) THEN @ ELSE Exited("none")]
  /\ joined' = IF Alive(fConnector) THEN "running" ELSE thr[fConnector].exit
  /\ fConnector' = 0
  /\ mainPc' = mainCont
  /\ UNCHANGED <<nConn, remaining, fileOpen, fBuffer, gCINTMutex,
                 gDataMutex, data, tree, seen, mainCont, mainOp, stopArg, lastErr>>
  /\ UNCHANGED <<histVars, mgrVars, lockVars>>

\* BufferSource::RunFile line 242: rb::Unattach() again.
RunFile_Unattach ==
  /\ mainPc = "runfile"
  /\ mainPc' = "unattach"
  /\ mainCont' = "openfile"
  /\ UNCHANGED <<fConnector, conn, thr, nConn, remaining, fileOpen, fBuffer, gCINTMutex,
                 gDataMutex, data, tree, seen, mainOp, stopArg, joined, lastErr>>
  /\ UNCHANGED <<histVars, mgrVars, lockVars>>

\* RunFile gives up when OpenFile() fails.
OpenFailed_Ignored(open) == FALSE
OpenFailed(open) == ~open

\* A new connector object: Connector::Connector sets fRun = kTRUE.
NewConnector(k, stop) == [kind |-> k, kStopAtEnd |-> stop, fRun |-> TRUE, live |-> TRUE]

\* BufferSource::RunFile lines 243-248: OpenFile(); on failure Error() and
\* return; on success new File(filename, stopAtEnd, this) and StartConnection,
\* which begins with BufferSource::Unattach().
RunFile_Open ==
  /\ mainPc = "openfile"
  /\ \E open \in BOOLEAN :
       /\ fileOpen' = open
       /\ IF open THEN \E n \in 0..remaining : remaining' = n
                  ELSE UNCHANGED remaining
       /\ IF OpenFailed(open)
            THEN /\ lastErr' = "OpenError"
                 /\ mainPc' = "ready"
                 /\ mainCont' = "ready"
                 /\ stopArg' = FALSE
                 /\ UNCHANGED <<conn, nConn>>
            ELSE /\ nConn' = nConn + 1
                 /\ conn' = [conn EXCEPT ![nConn + 1] = NewConnector("File", stopArg)]
                 /\ mainPc' = "unattach"
                 /\ mainCont' = "start"
                 /\ UNCHANGED <<lastErr, stopArg>>
  /\ UNCHANGED <<fConnector, thr, fBuffer, gCINTMutex, gDataMutex, data, tree,
                 seen, mainOp, joined>>
  /\ UNCHANGED <<histVars, mgrVars, lockVars>>

\* BufferSource::RunOnline line 218: new Online(...) and StartConnection,
\* which begins with BufferSource::Unattach().
RunOnline_New ==
  /\ mainPc = "runonline"
  /\ nConn' = nConn + 1
  /\ conn' = [conn EXCEPT ![nConn + 1] = NewConnector("Online", FALSE)]
  /\ mainPc' = "unattach"
  /\ mainCont' = "start"
  /\ UNCHANGED <<fConnector, thr, remaining, fileOpen, fBuffer, gCINTMutex,
                 gDataMutex, data, tree, seen, mainOp, stopArg, joined, lastErr>>
  /\ UNCHANGED <<histVars, mgrVars, lockVars>>

\* BufferSource::RunList: Error("RunList", "Needs to be implemented").
RunList_Error ==
  /\ mainPc = "runlist"
  /\ lastErr' = "NotImplemented"
  /\ mainPc' = "ready"
  /\ mainCont' = "ready"
  /\ UNCHANGED <<fConnector, conn, thr, nConn, remaining, fileOpen, fBuffer, gCINTMutex,
                 gDataMutex, data, tree, seen, mainOp, stopArg, joined>>
  /\ UNCHANGED <<histVars, mgrVars, lockVars>>

\* The position at which a connector's thread starts: its Attach().
FirstPc(k) == IF k = "Online" THEN "connect" ELSE "while"

\* BufferSource::StartConnection lines 205-206: fConnector.Start(new_) and
\* fConnector()->Run(), which runs new_->Attach() on fThread.
StartConnection_Run ==
  /\ mainPc = "start"
  /\ fConnector' = nConn
  /\ thr' = [thr EXCEPT ![nConn] = [NoThread EXCEPT !.pc = FirstPc(conn[nConn].kind)]]
  /\ mainPc' = "ready"
  /\ mainCont' = "ready"
  /\ stopArg' = FALSE
  /\ UNCHANGED <<conn, nConn, remaining, fileOpen, fBuffer, gCINTMutex, gDataMutex,
                 data, tree, seen, mainOp, joined, lastErr>>
  /\ UNCHANGED <<histVars, mgrVars, lockVars>>

(***************************************************************************)
(* The producer thread of connector t: rb::File::Attach and                *)
(* rb::Online::Attach (Buffer.cxx), the reads and rb::Midas::UnpackBuffer  *)
(* (user/User.cxx), and rb::Event::Process (Event.cxx).                    *)
(***************************************************************************)

Buffers == [id : {"EVENT", "SCALER"}, valid : BOOLEAN, val : Vals]

\* File::Attach line 29: while(fRun).
File_While(t) ==
  /\ thr[t].pc = "while"
  /\ conn[t].kind = "File"
  /\ thr' = [thr EXCEPT ![t].pc = IF conn[t].fRun THEN "read" ELSE "after"]
  /\ UNCHANGED <<fConnector, conn, nConn, remaining, fileOpen, fBuffer, gCINTMutex,
                 gDataMutex, data, tree, seen, mainPc, mainCont, mainOp, stopArg, joined, lastErr>>
  /\ UNCHANGED <<histVars, mgrVars, lockVars>>

\* File::Attach lines 32-33, what follows a failed read: break with
\* kStopAtEnd, gSystem->Sleep(10e3) without it.
AfterFailedRead_AlwaysStop(stop) == "after"
AfterFailedRead(stop) == IF stop THEN "after" ELSE "sleep"

\* File::Attach lines 30-33: ReadBufferOffline(); a buffer is unpacked, a
\* failed read ends the loop with kStopAtEnd and sleeps without it. The file
\* may be at its current end while a writer still appends to it: a read
\* succeeds only when a buffer is there by now (avail).
File_Read(t) ==
  /\ thr[t].pc = "read"
  /\ \E avail \in BOOLEAN :
       IF fileOpen /\ remaining > 0 /\ avail
         THEN /\ \E b \in Buffers : fBuffer' = b
              /\ remaining' = remaining - 1
              /\ thr' = [thr EXCEPT ![t].pc = "unpack"]
         ELSE /\ thr' = [thr EXCEPT ![t].pc = AfterFailedRead(conn[t].kStopAtEnd),
                                    ![t].retry = TRUE]
              /\ UNCHANGED <<fBuffer, remaining>>
  /\ UNCHANGED <<fConnector, conn, nConn, fileOpen, gCINTMutex, gDataMutex, data, tree,
                 seen, mainPc, mainCont, mainOp, stopArg, joined, lastErr>>
  /\ UNCHANGED <<histVars, mgrVars, lockVars>>

\* File::Attach line 33: gSystem->Sleep(10e3), then the loop condition again.
File_Sleep(t) ==
  /\ thr[t].pc = "sleep"
  /\ thr' = [thr EXCEPT ![t].pc = "while"]
  /\ UNCHANGED <<fConnector, conn, nConn, remaining, fileOpen, fBuffer, gCINTMutex,
                 gDataMutex, data, tree, seen, mainPc, mainCont, mainOp, stopArg, joined, lastErr>>
  /\ UNCHANGED <<histVars, mgrVars, lockVars>>

\* File::Attach lines 38-44: "Done reading" when fRun is still set,
\* "Connection aborted by user" otherwise; the thread function returns.
File_After(t) ==
  /\ thr[t].pc = "after"
  /\ thr' = [thr EXCEPT ![t] = Exited(IF conn[t].fRun THEN "done" ELSE "aborted")]
  /\ UNCHANGED <<fConnector, conn, nConn, remaining, fileOpen, fBuffer, gCINTMutex,
                 gDataMutex, data, tree, seen, mainPc, mainCont, mainOp, stopArg, joined, lastErr>>
  /\ UNCHANGED <<histVars, mgrVars, lockVars>>

\* Online::Attach lines 50-51: ConnectOnline() runs on the producer thread;
\* when it fails Attach() returns.
Online_Connect(t) ==
  /\ thr[t].pc = "connect"
  /\ \E connected \in BOOLEAN :
       IF connected
         THEN /\ \E n \in 0..remaining : remaining' = n
              /\ thr' = [thr EXCEPT ![t].pc = "while"]
         ELSE /\ thr' = [thr EXCEPT ![t] = Exited("connfail")]
              /\ UNCHANGED remaining
  /\ UNCHANGED <<fConnector, conn, nConn, fileOpen, fBuffer, gCINTMutex, gDataMutex, data,
                 tree, seen, mainPc, mainCont, mainOp, stopArg, joined, lastErr>>
  /\ UNCHANGED <<histVars, mgrVars, lockVars>>

\* Online::Attach line 52: while (fRun).
Online_While(t) ==
  /\ thr[t].pc = "while"
  /\ conn[t].kind = "Online"
  /\ thr' = IF conn[t].fRun
              THEN [thr EXCEPT ![t].pc = "readonline"]
              ELSE [thr EXCEPT ![t] = Exited("aborted")]
  /\ UNCHANGED <<fConnector, conn, nConn, remaining, fileOpen, fBuffer, gCINTMutex,
                 gDataMutex, data, tree, seen, mainPc, mainCont, mainOp, stopArg, joined, lastErr>>
  /\ UNCHANGED <<histVars, mgrVars, lockVars>>

\* The cancellation check of the poll loop in Midas::ReadBufferOnline:
\* rb::Thread::IsRunning(ONLINE_THREAD_NAME).
IsRunning(t) == conn[t].fRun

\* Midas::ReadBufferOnline line 56, what follows a receiveEvent() that found
\* no data: the loop goes on to poll(1000) while IsRunning() holds and ends
\* otherwise (line 58: "Unattached or stopped polling", return false).
NoDataNext_Exit(running) == "exited"
NoDataNext(running) == IF running THEN "poll" ELSE "exited"

\* Midas::ReadBufferOnline lines 54-70 and Online::Attach lines 53-55:
\* receiveEvent() returns a size; a positive size is a buffer to unpack, a
\* negative one is an error (ReadBufferOnline returns false, the loop of
\* Attach breaks), zero is no data.
Online_Read(t) ==
  /\ thr[t].pc = "readonline"
  /\ \E size \in {-1, 0, 1} :
       CASE size > 0 ->
              /\ remaining > 0
              /\ \E b \in Buffers : fBuffer' = b
              /\ remaining' = remaining - 1
              /\ thr' = [thr EXCEPT ![t].pc = "unpack"]
         [] size = 0 ->
              /\ thr' = IF NoDataNext(IsRunning(t)) = "poll"
                          THEN [thr EXCEPT ![t].pc = "poll"]
                          ELSE [thr EXCEPT ![t] = Exited("nodata")]
              /\ UNCHANGED <<fBuffer, remaining>>
         [] size < 0 ->
              /\ thr' = [thr EXCEPT ![t] = Exited("readerror")]
              /\ UNCHANGED <<fBuffer, remaining>>
  /\ UNCHANGED <<fConnector, conn, nConn, fileOpen, gCINTMutex, gDataMutex, data, tree,
                 seen, mainPc, mainCont, mainOp, stopArg, joined, lastErr>>
  /\ UNCHANGED <<histVars, mgrVars, lockVars>>

\* Midas::ReadBufferOnline line 56: onlineMidas->poll(1000) waits up to a
\* second; true goes back to receiveEvent(), false ends the loop with size 0.
Online_Poll(t) ==
  /\ thr[t].pc = "poll"
  /\ \E poll \in BOOLEAN :
       thr' = IF poll THEN [thr EXCEPT ![t].pc = "readonline"]
                      ELSE [thr EXCEPT ![t] = Exited("pollend")]
  /\ UNCHANGED <<fConnector, conn, nConn, remaining, fileOpen, fBuffer, gCINTMutex,
                 gDataMutex, data, tree, seen, mainPc, mainCont, mainOp, stopArg, joined, lastErr>>
  /\ UNCHANGED <<histVars, mgrVars, lockVars>>

\* The locals of a thread entering rb::Event::Process for event number i.
EnterProcess(r, i) ==
  [r EXCEPT !.pc = "P_cint", !.ev = i, !.ok = FALSE, !.passes = 0, !.bad = 0,
            !.row0 = tree[Events[i]]]

\* Midas::UnpackBuffer lines 79-105: a DRAGON_EVENT buffer is processed as a
\* gamma, a heavy-ion and a coincidence event, in this order; a scaler or
\* unknown buffer is dropped. The function returns kTRUE.
UnpackBuffer(t) ==
  /\ thr[t].pc = "unpack"
  /\ thr' = IF fBuffer.id = "EVENT"
              THEN [thr EXCEPT ![t] = EnterProcess([@ EXCEPT !.badBuf = FALSE, !.retry = FALSE], 1)]
              ELSE [thr EXCEPT ![t].pc = "unpacked", ![t].badBuf = FALSE, ![t].retry = FALSE]
  /\ UNCHANGED <<fConnector, conn, nConn, remaining, fileOpen, fBuffer, gCINTMutex,
                 gDataMutex, data, tree, seen, mainPc, mainCont, mainOp, stopArg, joined, lastErr>>
  /\ UNCHANGED <<histVars, mgrVars, lockVars>>

Ev(t) == Events[thr[t].ev]

\* Event::Process line 29: rb::ScopedLock<TVirtualMutex> cint_lock(gCINTMutex).
P_LockCint(t) ==
  /\ thr[t].pc = "P_cint"
  /\ gCINTMutex = {}
  /\ gCINTMutex' = {t}
  /\ thr' = [thr EXCEPT ![t].pc = "P_data"]
  /\ UNCHANGED <<fConnector, conn, nConn, remaining, fileOpen, fBuffer, gDataMutex, data,
                 tree, seen, mainPc, mainCont, mainOp, stopArg, joined, lastErr>>
  /\ UNCHANGED <<histVars, mgrVars, lockVars>>

\* What the declaration of pTree makes of gDataMutex: LockingPointer locks it.
DataLocked_Free(t) == gDataMutex
DataLocked(t) == gDataMutex \cup {t}

\* Event::Process line 30: LockingPointer<TTree> pTree(fTree, gDataMutex).
P_LockData(t) ==
  /\ thr[t].pc = "P_data"
  /\ gDataMutex = {}
  /\ gDataMutex' = DataLocked(t)
  /\ thr' = [thr EXCEPT ![t].pc = "P_do"]
  /\ UNCHANGED <<fConnector, conn, nConn, remaining, fileOpen, fBuffer, gCINTMutex, data,
                 tree, seen, mainPc, mainCont, mainOp, stopArg, joined, lastErr>>
  /\ UNCHANGED <<histVars, mgrVars, lockVars>>

\* Cast(addr) of the user event classes: null for a buffer that is no event
\* of the class.
Cast(b) == b.valid

\* Event::Process line 31, DoProcess(): GammaEvent and HeavyIonEvent return
\* false when Cast() gives null and otherwise unpack() the buffer (and then
\* read_data(), P_ReadData); CoincidenceEvent reads the gamma and heavy-ion
\* objects and returns true.
P_DoProcess(t) ==
  /\ thr[t].pc = "P_do"
  /\ IF Ev(t) = "coinc"
       THEN /\ data' = [data EXCEPT !["coinc"] = [raw |-> data["gamma"].cal,
                                                   cal |-> data["hi"].cal]]
            /\ thr' = [thr EXCEPT ![t].pc = "P_fill", ![t].ok = TRUE]
       ELSE IF Cast(fBuffer)
              THEN /\ data' = [data EXCEPT ![Ev(t)].raw = fBuffer.val]
                   /\ thr' = [thr EXCEPT ![t].pc = "P_do2"]
              ELSE /\ thr' = [thr EXCEPT ![t].pc = "P_unlock", ![t].ok = FALSE]
                   /\ UNCHANGED data
  /\ UNCHANGED <<fConnector, conn, nConn, remaining, fileOpen, fBuffer, gCINTMutex,
                 gDataMutex, tree, seen, mainPc, mainCont, mainOp, stopArg, joined, lastErr>>
  /\ UNCHANGED <<histVars, mgrVars, lockVars>>

\* GammaEvent::DoProcess lines 127-128 (HeavyIonEvent lines 139-140):
\* read_data() computes the calibrated fields from the raw ones; return true.
P_ReadData(t) ==
  /\ thr[t].pc = "P_do2"
  /\ data' = [data EXCEPT ![Ev(t)].cal = data[Ev(t)].raw]
  /\ thr' = [thr EXCEPT ![t].pc = "P_fill", ![t].ok = TRUE]
  /\ UNCHANGED <<fConnector, conn, nConn, remaining, fileOpen, fBuffer, gCINTMutex,
                 gDataMutex, tree, seen, mainPc, mainCont, mainOp, stopArg, joined, lastErr>>
  /\ UNCHANGED <<histVars, mgrVars, lockVars>>

\* Event::Process lines 32-35: if(success) pTree->Fill() and LoadTree(0)
\* commit the row.
P_Fill(t) ==
  /\ thr[t].pc = "P_fill"
  /\ tree' = [tree EXCEPT ![Ev(t)] = data[Ev(t)]]
  /\ thr' = [thr EXCEPT ![t].pc = "P_unlock"]
  /\ UNCHANGED <<fConnector, conn, nConn, remaining, fileOpen, fBuffer, gCINTMutex,
                 gDataMutex, data, seen, mainPc, mainCont, mainOp, stopArg, joined, lastErr>>
  /\ UNCHANGED <<histVars, mgrVars, lockVars>>

\* Event::Process lines 37-38, what follows the locked block:
\* if(success) fHistManager.FillAll(); else HandleBadEvent().
AfterUnlock_AlwaysBad(success) == "P_bad"
AfterUnlock_AlwaysFill(success) == "P_fillall"
AfterUnlock(success) == IF success THEN "P_fillall" ELSE "P_bad"

\* The destructor of a lock handle (rb::ScopedLock, LockingPointer) at the
\* closing brace of Event::Process line 36: it runs whatever success is.
ScopeExit_SuccessOnly(m, t, success) == IF success THEN m \ {t} ELSE m
ScopeExit(m, t, success) == m \ {t}

\* Event::Process line 36: the locks go out of scope and unlock.
P_Unlock(t) ==
  /\ thr[t].pc = "P_unlock"
  /\ gCINTMutex' = ScopeExit(gCINTMutex, t, thr[t].ok)
  /\ gDataMutex' = ScopeExit(gDataMutex, t, thr[t].ok)
  /\ thr' = [thr EXCEPT ![t].pc = AfterUnlock(thr[t].ok)]
  /\ UNCHANGED <<fConnector, conn, nConn, remaining, fileOpen, fBuffer, data, tree, seen,
                 mainPc, mainCont, mainOp, stopArg, joined, lastErr>>
  /\ UNCHANGED <<histVars, mgrVars, lockVars>>

\* Event::Process line 37: fHistManager.FillAll() is entered.
P_FillAll(t) ==
  /\ thr[t].pc = "P_fillall"
  /\ thr' = [thr EXCEPT ![t].pc = "P_eval"]
  /\ UNCHANGED <<fConnector, conn, nConn, remaining, fileOpen, fBuffer, gCINTMutex,
                 gDataMutex, data, tree, seen, mainPc, mainCont, mainOp, stopArg, joined, lastErr>>
  /\ UNCHANGED <<histVars, mgrVars, lockVars>>

\* Event::Process line 37: fHistManager is the manager this event owns (the
\* one find_manager returns for its code); the events whose histograms its
\* FillAll() evaluates.
ManagedBy_Global(ev) == EventSet
ManagedBy(ev) == {ev}

\* The evaluation pass of FillAll(): the histograms of this event's manager
\* are evaluated against the committed row; FillAll() returns.
P_Evaluate(t) ==
  /\ thr[t].pc = "P_eval"
  /\ seen' = [e \in EventSet |-> IF e \in ManagedBy(Ev(t)) THEN tree[e] ELSE seen[e]]
  /\ filled' = [e \in EventSet |-> IF e \in ManagedBy(Ev(t)) THEN filled[e] + 1 ELSE filled[e]]
  /\ thr' = [thr EXCEPT ![t].pc = "P_ret", ![t].passes = @ + 1]
  /\ UNCHANGED <<fConnector, conn, nConn, remaining, fileOpen, fBuffer, gCINTMutex,
                 gDataMutex, data, tree, mainPc, mainCont, mainOp, stopArg, joined, lastErr>>
  /\ UNCHANGED <<histVars, lockVars>>

\* Event::Process line 38: HandleBadEvent().
P_HandleBadEvent(t) ==
  /\ thr[t].pc = "P_bad"
  /\ thr' = [thr EXCEPT ![t].pc = "P_ret", ![t].bad = @ + 1, ![t].badBuf = TRUE]
  /\ UNCHANGED <<fConnector, conn, nConn, remaining, fileOpen, fBuffer, gCINTMutex,
                 gDataMutex, data, tree, seen, mainPc, mainCont, mainOp, stopArg, joined, lastErr>>
  /\ UNCHANGED <<histVars, mgrVars, lockVars>>

\* Process() returns to Midas::UnpackBuffer, which processes the next event
\* (lines 89-95) or returns kTRUE (line 105).
P_Return(t) ==
  /\ thr[t].pc = "P_ret"
  /\ thr' = IF thr[t].ev < Len(Events)
              THEN [thr EXCEPT ![t] = EnterProcess(@, thr[t].ev + 1)]
              ELSE [thr EXCEPT ![t] = [NoThread EXCEPT !.pc = "unpacked",
                                                        !.badBuf = thr[t].badBuf]]
  /\ UNCHANGED <<fConnector, conn, nConn, remaining, fileOpen, fBuffer, gCINTMutex,
                 gDataMutex, data, tree, seen, mainPc, mainCont, mainOp, stopArg, joined, lastErr>>
  /\ UNCHANGED <<histVars, mgrVars, lockVars>>

\* What the loops of File::Attach (line 31) and Online::Attach (line 55) do
\* after UnpackBuffer(): its result is not looked at, the loop goes on.
AfterUnpack_BreakOnBad(bad) == IF bad THEN "exited" ELSE "while"
AfterUnpack(bad) == "while"

\* End of the loop body after UnpackBuffer().
Unpacked(t) ==
  /\ thr[t].pc = "unpacked"
  /\ thr' = [thr EXCEPT ![t] = [NoThread EXCEPT !.pc = AfterUnpack(thr[t].badBuf),
                                                !.badBuf = thr[t].badBuf]]
  /\ UNCHANGED <<fConnector, conn, nConn, remaining, fileOpen, fBuffer, gCINTMutex,
                 gDataMutex, data, tree, seen, mainPc, mainCont, mainOp, stopArg, joined, lastErr>>
  /\ UNCHANGED <<histVars, mgrVars, lockVars>>

(***************************************************************************)
(* Consumer calls that touch the event record.                             *)
(***************************************************************************)

\* rb::Event::InitFormula::Operate: LockFreePointer<TTree> pTree(event->fTree),
\* no lock is taken; new TTreeFormula(...) reads the tree.
InitFormula_Begin ==
  /\ mainPc = "ready"
  /\ mainPc' = "formula"
  /\ UNCHANGED <<fConnector, conn, thr, nConn, remaining, fileOpen, fBuffer, gCINTMutex,
                 gDataMutex, data, tree, seen, mainCont, mainOp, stopArg, joined, lastErr>>
  /\ UNCHANGED <<histVars, mgrVars, lockVars>>

InitFormula_End ==
  /\ mainPc = "formula"
  /\ mainPc' = "ready"
  /\ UNCHANGED <<fConnector, conn, thr, nConn, remaining, fileOpen, fBuffer, gCINTMutex,
                 gDataMutex, data, tree, seen, mainCont, mainOp, stopArg, joined, lastErr>>
  /\ UNCHANGED <<histVars, mgrVars, lockVars>>

\* rb::Event::BranchAdd::Operate: LockingPointer<TTree>(event->fTree,
\* gDataMutex)->Branch(...): the lock is taken for the call and released.
BranchAdd_Lock ==
  /\ mainPc = "ready"
  /\ gDataMutex = {}
  /\ gDataMutex' = {0}
  /\ mainPc' = "branch"
  /\ UNCHANGED <<fConnector, conn, thr, nConn, remaining, fileOpen, fBuffer, gCINTMutex,
                 data, tree, seen, mainCont, mainOp, stopArg, joined, lastErr>>
  /\ UNCHANGED <<histVars, mgrVars, lockVars>>

\* BranchAdd::Operate line 53: the LockingPointer is a temporary, it is
\* destroyed, and the lock released, at the end of the statement.
TemporaryGone_Kept(m) == m
TemporaryGone(m) == m \ {0}

BranchAdd_Unlock ==
  /\ mainPc = "branch"
  /\ gDataMutex' = TemporaryGone(gDataMutex)
  /\ mainPc' = "ready"
  /\ UNCHANGED <<fConnector, conn, thr, nConn, remaining, fileOpen, fBuffer, gCINTMutex,
                 data, tree, seen, mainCont, mainOp, stopArg, joined, lastErr>>
  /\ UNCHANGED <<histVars, mgrVars, lockVars>>

Consumer ==
  \/ CallUnattach
  \/ CallAttachFile
  \/ CallAttachOnline
  \/ CallAttachList
  \/ Unattach_Stop
  \/ Connector_Join
  \/ RunFile_Unattach
  \/ RunFile_Open
  \/ RunOnline_New
  \/ RunList_Error
  \/ StartConnection_Run
  \/ InitFormula_Begin
  \/ InitFormula_End
  \/ BranchAdd_Lock
  \/ BranchAdd_Unlock

Producer(t) ==
  \/ File_While(t)
  \/ File_Read(t)
  \/ File_Sleep(t)
  \/ File_After(t)
  \/ Online_Connect(t)
  \/ Online_While(t)
  \/ Online_Read(t)
  \/ Online_Poll(t)
  \/ UnpackBuffer(t)
  \/ P_LockCint(t)
  \/ P_LockData(t)
  \/ P_DoProcess(t)
  \/ P_ReadData(t)
  \/ P_Fill(t)
  \/ P_Unlock(t)
  \/ P_FillAll(t)
  \/ P_Evaluate(t)
  \/ P_HandleBadEvent(t)
  \/ P_Return(t)
  \/ Unpacked(t)

Next == Consumer \/ \E t \in ConnIds : Producer(t)

Spec == Init /\ [][Next]_vars

\* The scheduling the threads get: a producer thread that can take a step
\* eventually takes one, and so does the consumer while it is inside
\* BufferSource::Unattach(). Nothing forces the consumer to issue calls.
SpecFair ==
  /\ Spec
  /\ \A t \in ConnIds : WF_vars(Producer(t))
  /\ WF_vars(Unattach_Stop)
  /\ WF_vars(Connector_Join)

(***************************************************************************)
(* The histograms (Hist.hxx): rb::Hist wraps a TH1D that is filled from    *)
(* the formulas of its gate and its parameter, evaluated on the committed  *)
(* row; rb::BitHist<NBITS> fills one bin per set bit. Every call below     *)
(* runs under the global mutex rb::Hist::fgMutex, one at a time.           *)
(***************************************************************************)

HistNames == {"h1", "h2"}

\* Formula texts: the constant 1, the fields e and g of the row, and a text
\* that names no field. Gates are made of the first set, parameters of the
\* second.
GateTexts == {"1", "g", "nofield"}
ParamTexts == {"e", "nofield"}

\* Values of the field e: every NBITS-bit word, and two words with a bit
\* above the low NBITS.
RowValues == 0..(2^NBITS + 1)

Rows == [e : RowValues, g : {0, 1}]

\* The axes a one-dimensional rb::Hist is created with: bins, low, high.
Axes == {[n |-> 2, low |-> 1, high |-> 3]}

\* The axis of a BitHist: new TH1D(fName, fTitle, NBITS, 0, NBITS).
BitAxis == [n |-> NBITS, low |-> 0, high |-> NBITS]

\* new TTreeFormula(text, text, tree) is valid when the text names fields of
\* the tree (or is a constant).
Compile(text) == text \in {"1", "e", "g"}

\* TTreeFormula::EvalInstance() on the committed row.
EvalInstance(text, row) == IF text = "1" THEN 1 ELSE row[text]

\* The gate value and the parameter value of a histogram on a row.
GateOf(h, row) == EvalInstance(h.gate, row)
ParamOf(h, row) == EvalInstance(h.param, row)

\* new TH1D(name, title, n, low, high): the array fArray has fN = n + 2
\* cells, cell 0 below the axis and cell n + 1 above it.
TH1D_New(axis) == [b \in 0..(axis.n + 1) |-> 0]

\* TH1::FindBin on an axis of equal bins.
FindBin(axis, x) ==
  IF x < axis.low THEN 0
  ELSE IF x >= axis.high THEN axis.n + 1
  ELSE 1 + ((x - axis.low) * axis.n) \div (axis.high - axis.low)

\* TH1D::Fill(x).
TH1D_Fill_Weighted(arr, axis, x) == [arr EXCEPT ![FindBin(axis, x)] = @ + 2]
TH1D_Fill(arr, axis, x) == [arr EXCEPT ![FindBin(axis, x)] = @ + 1]

\* DoFill line 418: if(!gate->EvalInstance()) return 0.
GatePasses_Always(v) == TRUE
GatePasses(v) == v # 0

\* BitHist::DoFill lines 421-423: bits[i] of std::bitset<NBITS> bits(value),
\* for i < NBITS.
BitSet_Next(v, i) == (v \div 2^(i + 1)) % 2 = 1
BitSet(v, i) == (v \div 2^i) % 2 = 1

\* BitHist::DoFill lines 422-427: the loop over the bits from i on; the
\* result is the array and the count of the bits filled.
RECURSIVE BitLoop(_, _, _, _)
BitLoop(arr, v, i, ret) ==
  IF i >= NBITS THEN [arr |-> arr, ret |-> ret]
  ELSE IF BitSet(v, i)
         THEN BitLoop(TH1D_Fill(arr, BitAxis, i), v, i + 1, ret + 1)
         ELSE BitLoop(arr, v, i + 1, ret)

\* BitHist<NBITS>::DoFill.
BitDoFill(h, row) ==
  IF ~GatePasses(EvalInstance(h.gate, row))
    THEN [arr |-> h.arr, ret |-> 0]
    ELSE BitLoop(h.arr, EvalInstance(h.param, row), 0, 0)

\* Whether a parameter result lies on the axis, [low, high).
InRange_All(axis, x) == TRUE
InRange(axis, x) == x >= axis.low /\ x < axis.high

\* rb::Hist::DoFill: nothing when the gate is zero; otherwise the parameter
\* is evaluated and a result on the axis increments its bin; the result is
\* the number of increments.
HistDoFill(h, row) ==
  IF ~GatePasses(EvalInstance(h.gate, row))
    THEN [arr |-> h.arr, ret |-> 0]
    ELSE IF InRange(h.axis, EvalInstance(h.param, row))
           THEN [arr |-> TH1D_Fill(h.arr, h.axis, EvalInstance(h.param, row)), ret |-> 1]
           ELSE [arr |-> h.arr, ret |-> 0]

\* The parameter GammaHist::DoFill turns to after parameter p of n.
AfterGammaFill_Done(p, n) == n + 1
AfterGammaFill(p, n) == p + 1

\* GammaHist::DoFill, the parameters from p on: every parameter whose value
\* is on the axis increments the bin of its value; the result is the array
\* and the number of increments.
RECURSIVE GammaLoop(_, _, _, _, _)
GammaLoop(arr, h, row, p, ret) ==
  IF p > Len(h.params) THEN [arr |-> arr, ret |-> ret]
  ELSE IF InRange(h.axis, EvalInstance(h.params[p], row))
         THEN GammaLoop(TH1D_Fill(arr, h.axis, EvalInstance(h.params[p], row)), h, row,
                        AfterGammaFill(p, Len(h.params)), ret + 1)
         ELSE GammaLoop(arr, h, row, p + 1, ret)

\* rb::GammaHist::DoFill: nothing when the gate is zero.
GammaDoFill(h, row) ==
  IF ~GatePasses(EvalInstance(h.gate, row))
    THEN [arr |-> h.arr, ret |-> 0]
    ELSE GammaLoop(h.arr, h, row, 1, 0)

\* The index on the parameter axis that parameter p of a SummaryHist fills.
SummaryIndex_First(p) == 1
SummaryIndex(p) == p

\* SummaryHist::DoFill, the parameters from p on: a parameter whose value is
\* on the summary axis increments the bin of its value at its own index of
\* the parameter axis.
RECURSIVE SummaryLoop(_, _, _, _, _)
SummaryLoop(arr, h, row, p, ret) ==
  IF p > Len(h.params) THEN [arr |-> arr, ret |-> ret]
  ELSE IF InRange(h.axis, EvalInstance(h.params[p], row))
         THEN SummaryLoop([arr EXCEPT ![SummaryIndex(p)] =
                                  TH1D_Fill(@, h.axis, EvalInstance(h.params[p], row))],
                          h, row, p + 1, ret + 1)
         ELSE SummaryLoop(arr, h, row, p + 1, ret)

\* rb::SummaryHist::DoFill: nothing when the gate is zero.
SummaryDoFill(h, row) ==
  IF ~GatePasses(EvalInstance(h.gate, row))
    THEN [arr |-> h.arr, ret |-> 0]
    ELSE SummaryLoop(h.arr, h, row, 1, 0)

\* The virtual DoFill of a histogram.
DoFill(h, row) ==
  CASE h.kind = "Bit" -> BitDoFill(h, row)
    [] h.kind = "Gamma" -> GammaDoFill(h, row)
    [] h.kind = "Summary" -> SummaryDoFill(h, row)
    [] OTHER -> HistDoFill(h, row)

Names(list) == {list[i].name : i \in 1..Len(list)}

\* The result record of a histogram call.
Result(op, ret, err) == [op |-> op, ret |-> ret, err |-> err]

\* An event is committed: the row the formulas see changes.
H_Commit ==
  /\ \E row \in Rows : fgTree' = row
  /\ hOp' = Result("Commit", 0, "none")
  /\ UNCHANGED <<fgList, gDirectory, nFill>>
  /\ UNCHANGED <<pipeVars, mgrVars, lockVars>>

\* rb::Hist::Fill() on the histogram at position i: DoFill on its histogram,
\* gate and parameters.
H_Fill(i) ==
  /\ nFill < MaxFill
  /\ nFill' = nFill + 1
  /\ fgList' = [fgList EXCEPT ![i].arr = DoFill(fgList[i], fgTree).arr]
  /\ hOp' = Result("Fill", DoFill(fgList[i], fgTree).ret, "none")
  /\ UNCHANGED <<gDirectory, fgTree>>
  /\ UNCHANGED <<pipeVars, mgrVars, lockVars>>

\* rb::Hist::FillAll(): DoFill on every histogram of fgList.
H_FillAll ==
  /\ nFill < MaxFill
  /\ fgList # <<>>
  /\ nFill' = nFill + 1
  /\ fgList' = [i \in 1..Len(fgList) |->
                  [fgList[i] EXCEPT !.arr = DoFill(fgList[i], fgTree).arr]]
  /\ hOp' = Result("FillAll", 0, "none")
  /\ UNCHANGED <<gDirectory, fgTree>>
  /\ UNCHANGED <<pipeVars, mgrVars, lockVars>>

\* What the Hist constructor leaves in kConstructorSuccess: whether the gate
\* and the parameter formulas are valid.
ConstructorSuccess_Always(gate, param) == TRUE
ConstructorSuccess(gate, param) == Compile(gate) /\ Compile(param)

\* TDirectory::Append(obj, kTRUE): objects of the same name leave the list
\* of the directory, the new one joins it.
DirAppend(dir, list, i) == {j \in dir : list[j].name # list[i].name} \cup {i}

\* rb::Hist::New (one-dimensional) through rb::Hist::Initialize: the creation
\* fails when the name is in use or a formula is not valid.
H_New(name, gate, param, axis) ==
  /\ Len(fgList) < MaxHist
  /\ IF name \in Names(fgList)
       THEN /\ hOp' = Result("New", 0, "DuplicateName")
            /\ UNCHANGED <<fgList, gDirectory>>
       ELSE IF ~ConstructorSuccess(gate, param)
         THEN /\ hOp' = Result("New", 0, "CompileError")
              /\ UNCHANGED <<fgList, gDirectory>>
         ELSE /\ fgList' = Append(fgList, [name |-> name, kind |-> "Hist", gate |-> gate,
                                            param |-> param, axis |-> axis,
                                            arr |-> TH1D_New(axis)])
              /\ gDirectory' = DirAppend(gDirectory, fgList', Len(fgList'))
              /\ hOp' = Result("New", 1, "none")
  /\ UNCHANGED <<fgTree, nFill>>
  /\ UNCHANGED <<pipeVars, mgrVars, lockVars>>

\* The object BitInitialize pushes to fgList: constructed (name, formulas)
\* and with its TH1D of NBITS bins on [0, NBITS) set, lines 434-449, all
\* before the list is locked and push_back is called.
Constructed_NoHistogram(name, gate, param) ==
  [name |-> name, kind |-> "Bit", gate |-> gate, param |-> param, axis |-> BitAxis,
   arr |-> <<>>]
Constructed(name, gate, param) ==
  [name |-> name, kind |-> "Bit", gate |-> gate, param |-> param, axis |-> BitAxis,
   arr |-> TH1D_New(BitAxis)]

\* rb::BitHist<NBITS>::New, that is BitInitialize: the object is constructed,
\* kFALSE when the constructor failed; otherwise the TH1D is made, the object
\* is pushed to fgList and appended to gDirectory.
H_NewBit(name, gate, param) ==
  /\ Len(fgList) < MaxHist
  /\ IF ~ConstructorSuccess(gate, param)
       THEN /\ hOp' = Result("NewBit", 0, "CompileError")
            /\ UNCHANGED <<fgList, gDirectory>>
       ELSE /\ fgList' = Append(fgList, Constructed(name, gate, param))
            /\ gDirectory' = DirAppend(gDirectory, fgList', Len(fgList'))
            /\ hOp' = Result("NewBit", 1, "none")
  /\ UNCHANGED <<fgTree, nFill>>
  /\ UNCHANGED <<pipeVars, mgrVars, lockVars>>

\* What Regate stores for a gate text that is not valid: the gate it had.
GateAfterFailure_Taken(old, new) == new
GateAfterFailure(old, new) == old

\* What Regate leaves of the bin array: all of it.
ArrayAfterRegate_Reset(arr) == [b \in DOMAIN arr |-> 0]
ArrayAfterRegate(arr) == arr

\* rb::Hist::Regate(newgate): 0 and the new gate when newgate is valid, -1
\* and the gate unchanged when it is not.
H_Regate(i, text) ==
  /\ IF Compile(text)
       THEN /\ fgList' = [fgList EXCEPT ![i].gate = text, ![i].arr = ArrayAfterRegate(@)]
            /\ hOp' = Result("Regate", 0, "none")
       ELSE /\ fgList' = [fgList EXCEPT ![i].gate = GateAfterFailure(@, text)]
            /\ hOp' = Result("Regate", -1, "CompileError")
  /\ UNCHANGED <<gDirectory, fgTree, nFill>>
  /\ UNCHANGED <<pipeVars, mgrVars, lockVars>>

\* The loop of Clear(): for(p = 0; p < hist->fN; ++p) hist->fArray[p] = 0.
ClearedArray_FromSecond(arr) == [b \in DOMAIN arr |-> IF b < 2 THEN arr[b] ELSE 0]
ClearedArray(arr) == [b \in DOMAIN arr |-> 0]

\* rb::Hist::Clear(): every cell of fArray, p < fN, is set to 0.
H_Clear(i) ==
  /\ fgList' = [fgList EXCEPT ![i].arr = ClearedArray(@)]
  /\ hOp' = Result("Clear", 0, "none")
  /\ UNCHANGED <<gDirectory, fgTree, nFill>>
  /\ UNCHANGED <<pipeVars, mgrVars, lockVars>>

NextHist ==
  \/ H_Commit
  \/ \E i \in 1..Len(fgList) : H_Fill(i)
  \/ H_FillAll
  \/ \E name \in HistNames, gate \in GateTexts, param \in ParamTexts, axis \in Axes :
       H_New(name, gate, param, axis)
  \/ \E name \in HistNames, gate \in GateTexts, param \in ParamTexts :
       H_NewBit(name, gate, param)
  \/ \E i \in 1..Len(fgList), text \in GateTexts : H_Regate(i, text)
  \/ \E i \in 1..Len(fgList) : H_Clear(i)

\* The histogram calls on their own, the pipeline of Spec at rest.
SpecHist == Init /\ [][NextHist]_vars

(***************************************************************************)
(* The list of histograms (Hist.hxx): creation, destruction, DeleteAll,    *)
(* Find and GetNumber on rb::Hist::fgList.                                  *)
(***************************************************************************)

\* fgList after ~Hist of the histogram at position i: "remove this from
\* fgList".
Removed_Kept(list, i) == list
Removed(list, i) == [j \in 1..(Len(list) - 1) |-> IF j < i THEN list[j] ELSE list[j + 1]]

\* gDirectory after the histogram at position i has left it and the list.
DirRemove(dir, i) == {IF j > i THEN j - 1 ELSE j : j \in dir \ {i}}

\* rb::Hist::~Hist of the histogram at position i.
H_Delete(i) ==
  /\ fgList' = Removed(fgList, i)
  /\ gDirectory' = DirRemove(gDirectory, i)
  /\ hOp' = Result("Delete", 0, "none")
  /\ UNCHANGED <<fgTree, nFill>>
  /\ UNCHANGED <<pipeVars, mgrVars, lockVars>>

\* rb::Hist::DeleteAll(): every entry of fgList is deleted.
H_DeleteAll ==
  /\ fgList' = <<>>
  /\ gDirectory' = {}
  /\ hOp' = Result("DeleteAll", 0, "none")
  /\ UNCHANGED <<fgTree, nFill>>
  /\ UNCHANGED <<pipeVars, mgrVars, lockVars>>

\* rb::Hist::GetNumber(): the size of fgList.
H_GetNumber ==
  /\ hOp' = Result("GetNumber", Len(fgList), "none")
  /\ UNCHANGED <<fgList, gDirectory, fgTree, nFill>>
  /\ UNCHANGED <<pipeVars, mgrVars, lockVars>>

\* The position of the first entry of the list with the name, 0 when there
\* is none.
FirstNamed(list, name) ==
  IF name \in Names(list)
    THEN CHOOSE i \in 1..Len(list) :
           list[i].name = name /\ \A j \in 1..(i - 1) : list[j].name # name
    ELSE 0

\* rb::Hist::Find(name): the first histogram of fgList with the name, or the
\* error message and 0.
H_Find(name) ==
  /\ hOp' = Result("Find", FirstNamed(fgList, name),
                   IF name \in Names(fgList) THEN "none" ELSE "NotFound")
  /\ UNCHANGED <<fgList, gDirectory, fgTree, nFill>>
  /\ UNCHANGED <<pipeVars, mgrVars, lockVars>>

NextReg ==
  \/ H_Commit
  \/ \E i \in 1..Len(fgList) : H_Fill(i)
  \/ \E name \in HistNames, gate \in GateTexts, param \in ParamTexts, axis \in Axes :
       H_New(name, gate, param, axis)
  \/ \E name \in HistNames, gate \in GateTexts, param \in ParamTexts :
       H_NewBit(name, gate, param)
  \/ \E i \in 1..Len(fgList) : H_Delete(i)
  \/ H_DeleteAll
  \/ H_GetNumber
  \/ \E name \in HistNames : H_Find(name)

\* The calls on the list of histograms, one at a time.
SpecReg == Init /\ [][NextReg]_vars

(***************************************************************************)
(* Gamma and summary histograms (Hist.hxx): several parameters on one      *)
(* axis, and one slice of a two-dimensional histogram per parameter.       *)
(***************************************************************************)

\* The parameter lists of the gamma and summary histograms, "e;g" and "g;e".
ParamLists == {<<"e", "g">>, <<"g", "e">>}

\* The gates of the gamma and summary histograms.
KindGates == {"1", "g"}

\* The two-dimensional histogram of a SummaryHist of n parameters: one
\* array over the summary axis for every index of the parameter axis.
TH2D_New(n, axis) == [p \in 1..n |-> TH1D_New(axis)]

\* rb::GammaHist::New for one dimension: the parameters share the axis.
K_NewGamma(name, gate, params, axis) ==
  /\ Len(fgList) < MaxHist
  /\ name \notin Names(fgList)
  /\ fgList' = Append(fgList, [name |-> name, kind |-> "Gamma", gate |-> gate,
                                params |-> params, axis |-> axis, arr |-> TH1D_New(axis)])
  /\ gDirectory' = DirAppend(gDirectory, fgList', Len(fgList'))
  /\ hOp' = Result("NewGamma", 1, "none")
  /\ UNCHANGED <<fgTree, nFill>>
  /\ UNCHANGED <<pipeVars, mgrVars, lockVars>>

\* rb::SummaryHist::New: nbins, low and high are those of the summary axis,
\* the parameter axis has one bin for every parameter of the list.
K_NewSummary(name, gate, params, axis) ==
  /\ Len(fgList) < MaxHist
  /\ name \notin Names(fgList)
  /\ fgList' = Append(fgList, [name |-> name, kind |-> "Summary", gate |-> gate,
                                params |-> params, axis |-> axis,
                                arr |-> TH2D_New(Len(params), axis)])
  /\ gDirectory' = DirAppend(gDirectory, fgList', Len(fgList'))
  /\ hOp' = Result("NewSummary", 1, "none")
  /\ UNCHANGED <<fgTree, nFill>>
  /\ UNCHANGED <<pipeVars, mgrVars, lockVars>>

NextKinds ==
  \/ H_Commit
  \/ \E i \in 1..Len(fgList) : H_Fill(i)
  \/ H_FillAll
  \/ \E name \in HistNames, gate \in KindGates, params \in ParamLists, axis \in Axes :
       K_NewGamma(name, gate, params, axis)
  \/ \E name \in HistNames, gate \in KindGates, params \in ParamLists, axis \in Axes :
       K_NewSummary(name, gate, params, axis)

\* Gamma and summary histograms created and filled, one call at a time.
SpecKinds == Init /\ [][NextKinds]_vars

(***************************************************************************)
(* The histogram calls of concurrent threads under rb::Hist::fgMutex       *)
(* (Hist.hxx): the thread that fills (id 0) and the interpreter-side       *)
(* callers.                                                                *)
(***************************************************************************)

\* The rows the filling thread commits.
LockRows == {[e |-> 3, g |-> 1], [e |-> 3, g |-> 0]}

\* The gate texts of the Regate calls.
LockGateTexts == {"g", "nofield"}

\* The histogram calls a caller can make and their arguments: the copies are
\* taken of the first histogram, the names of new histograms are free ones.
Calls ==
  {[op |-> o, h |-> i, text |-> ""] :
     o \in {"Clear", "Draw", "GetGate"}, i \in 1..Len(fgList)}
  \cup (IF fgList # <<>> THEN {[op |-> "GetHist", h |-> 1, text |-> ""]} ELSE {})
  \cup {[op |-> "Regate", h |-> i, text |-> x] : i \in 1..Len(fgList), x \in LockGateTexts}
  \cup {[op |-> "NewBit", h |-> 0, text |-> n] : n \in HistNames \ Names(fgList)}
  \cup {[op |-> "Find", h |-> 0, text |-> "h1"], [op |-> "GetNumber", h |-> 0, text |-> ""]}

\* LockingPointer(obj, fgMutex): TMutex::Lock() returns when no other thread
\* holds the mutex.
Lockable_Always(m) == TRUE
Lockable(m) == m = {}

\* The LockingPointer a function holds while it runs: the caller is among
\* the holders of the mutex.
Locked_Free(m, c) == m
Locked(m, c) == m \cup {c}

\* What the FillAll() pass does with fgMutex between two histograms: it
\* keeps it (DoFill is passed already locked components).
LockAfterHistogram_Released(m) == m \ {0}
LockAfterHistogram(m) == m

\* Where the FillAll() pass goes on after a DoFill() that failed: to the
\* next histogram.
AfterFailedFill_Abort(i, n) == n + 1
AfterFailedFill(i, n) == i + 1

\* TH1::Clone() in GetHist(): the copy has an array of its own.
Clone_Alias(i) == [h |-> i, alias |-> TRUE, arr |-> fgList[i].arr]
Clone(i) == [h |-> i, alias |-> FALSE, arr |-> fgList[i].arr]

\* The array a returned copy shows.
SnapContents(snap) == IF snap.alias THEN fgList[snap.h].arr ELSE snap.arr

\* An event is committed to fgTree (accessed through fgMutex).
F_Commit ==
  /\ pPc = "idle"
  /\ nFill < MaxFill
  /\ Lockable(fgMutex)
  /\ \E row \in LockRows : fgTree' = row
  /\ nFill' = nFill + 1
  /\ pPc' = "call"
  /\ hOp' = Result("Commit", 0, "none")
  /\ UNCHANGED <<fgList, gDirectory, fgMutex, pIdx, pBit, pDone, cons, snaps, cleared>>
  /\ UNCHANGED <<pipeVars, mgrVars>>

\* rb::Hist::FillAll() locks fgList through fgMutex and starts at its begin.
F_Lock ==
  /\ pPc = "call"
  /\ Lockable(fgMutex)
  /\ fgMutex' = fgMutex \cup {0}
  /\ pPc' = "next"
  /\ pIdx' = 1
  /\ pDone' = {}
  /\ UNCHANGED <<fgList, gDirectory, fgTree, nFill, hOp, pBit, cons, snaps, cleared>>
  /\ UNCHANGED <<pipeVars, mgrVars>>

\* The loop of FillAll(): past the end of the list the pass is over and the
\* lock is released; otherwise DoFill() of the histogram at the iterator
\* starts: it fails, or its gate is zero, or the loop over its bits begins.
F_Next ==
  /\ pPc = "next"
  /\ IF pIdx > Len(fgList)
       THEN /\ fgMutex' = fgMutex \ {0}
            /\ pPc' = "idle"
            /\ UNCHANGED <<fgList, hOp, pIdx, pBit, pDone>>
       ELSE /\ 0 \in fgMutex \/ Lockable(fgMutex)
            /\ \E fail \in BOOLEAN :
                 IF fail
                   THEN /\ pDone' = pDone \cup {pIdx}
                        /\ hOp' = Result("FillAll", pIdx, "EvalError")
                        /\ pIdx' = AfterFailedFill(pIdx, Len(fgList))
                        /\ fgMutex' = LockAfterHistogram(fgMutex \cup {0})
                        /\ UNCHANGED <<fgList, pPc, pBit>>
                   ELSE /\ pDone' = pDone \cup {pIdx}
                        /\ UNCHANGED hOp
                        /\ IF fgList[pIdx].kind = "Bit" /\ GatePasses(GateOf(fgList[pIdx], fgTree))
                             THEN /\ pPc' = "bits"
                                  /\ pBit' = 0
                                  /\ fgMutex' = fgMutex \cup {0}
                                  /\ UNCHANGED <<fgList, pIdx>>
                             ELSE /\ fgList' = [fgList EXCEPT ![pIdx].arr =
                                                  DoFill(fgList[pIdx], fgTree).arr]
                                  /\ pIdx' = pIdx + 1
                                  /\ fgMutex' = LockAfterHistogram(fgMutex \cup {0})
                                  /\ UNCHANGED <<pPc, pBit>>
  /\ UNCHANGED <<gDirectory, fgTree, nFill, cons, snaps, cleared>>
  /\ UNCHANGED <<pipeVars, mgrVars>>

\* One turn of the loop of BitHist::DoFill(): bit pBit of the value is
\* tested and its bin filled; after the last bit DoFill() returns.
F_Bit ==
  /\ pPc = "bits"
  /\ fgList' = IF BitSet(ParamOf(fgList[pIdx], fgTree), pBit)
                 THEN [fgList EXCEPT ![pIdx].arr = TH1D_Fill(@, BitAxis, pBit)]
                 ELSE fgList
  /\ IF pBit + 1 < NBITS
       THEN /\ pBit' = pBit + 1
            /\ UNCHANGED <<pPc, pIdx, fgMutex>>
       ELSE /\ pBit' = 0
            /\ pPc' = "next"
            /\ pIdx' = pIdx + 1
            /\ fgMutex' = LockAfterHistogram(fgMutex)
  /\ UNCHANGED <<gDirectory, fgTree, nFill, hOp, pDone, cons, snaps, cleared>>
  /\ UNCHANGED <<pipeVars, mgrVars>>

\* A caller enters a histogram function and the LockingPointer of the
\* function is constructed: fgMutex is taken.
L_Enter(c, call) ==
  /\ cons[c].pc = "idle"
  /\ call.op = "GetHist" => Len(snaps) < MaxSnap
  /\ Lockable(fgMutex)
  /\ fgMutex' = Locked(fgMutex, c)
  /\ cons' = [cons EXCEPT ![c] = [pc |-> "in", op |-> call.op, h |-> call.h,
                                  text |-> call.text]]
  /\ UNCHANGED <<histVars, pPc, pIdx, pBit, pDone, snaps, cleared>>
  /\ UNCHANGED <<pipeVars, mgrVars>>

\* The function returns: its LockingPointer releases fgMutex.
Return(c) ==
  /\ fgMutex' = fgMutex \ {c}
  /\ cons' = [cons EXCEPT ![c] = NoCall]

\* rb::Hist::Clear() under the lock.
L_Clear(c) ==
  /\ cons[c].pc = "in" /\ cons[c].op = "Clear"
  /\ fgList' = [fgList EXCEPT ![cons[c].h].arr = ClearedArray(@)]
  /\ cleared' = cleared \cup {cons[c].h}
  /\ Return(c)
  /\ UNCHANGED <<gDirectory, fgTree, nFill, hOp, pPc, pIdx, pBit, pDone, snaps>>
  /\ UNCHANGED <<pipeVars, mgrVars>>

\* rb::Hist::Regate() under the lock.
L_Regate(c) ==
  /\ cons[c].pc = "in" /\ cons[c].op = "Regate"
  /\ fgList' = [fgList EXCEPT ![cons[c].h].gate =
                  IF Compile(cons[c].text) THEN cons[c].text
                  ELSE GateAfterFailure(@, cons[c].text)]
  /\ Return(c)
  /\ UNCHANGED <<gDirectory, fgTree, nFill, hOp, pPc, pIdx, pBit, pDone, snaps, cleared>>
  /\ UNCHANGED <<pipeVars, mgrVars>>

\* rb::Hist::GetHist(): the copy of fHistogram is made under the lock and
\* returned.
L_GetHist(c) ==
  /\ cons[c].pc = "in" /\ cons[c].op = "GetHist"
  /\ Len(snaps) < MaxSnap
  /\ snaps' = Append(snaps, Clone(cons[c].h))
  /\ Return(c)
  /\ UNCHANGED <<histVars, pPc, pIdx, pBit, pDone, cleared>>
  /\ UNCHANGED <<pipeVars, mgrVars>>

\* Draw(), GetGate(), Find() and GetNumber(): they read under the lock.
L_Read(c) ==
  /\ cons[c].pc = "in" /\ cons[c].op \in {"Draw", "GetGate", "Find", "GetNumber"}
  /\ Return(c)
  /\ UNCHANGED <<histVars, pPc, pIdx, pBit, pDone, snaps, cleared>>
  /\ UNCHANGED <<pipeVars, mgrVars>>

\* BitInitialize from "Add to collections" on: push_back on the locked list
\* and Append to gDirectory.
L_NewBit(c) ==
  /\ cons[c].pc = "in" /\ cons[c].op = "NewBit"
  /\ IF Len(fgList) < MaxHist
       THEN /\ fgList' = Append(fgList, Constructed(cons[c].text, "1", "e"))
            /\ gDirectory' = DirAppend(gDirectory, fgList', Len(fgList'))
       ELSE UNCHANGED <<fgList, gDirectory>>
  /\ Return(c)
  /\ UNCHANGED <<fgTree, nFill, hOp, pPc, pIdx, pBit, pDone, snaps, cleared>>
  /\ UNCHANGED <<pipeVars, mgrVars>>

Filler == F_Commit \/ F_Lock \/ F_Next \/ F_Bit

Caller(c) ==
  \/ \E call \in Calls : L_Enter(c, call)
  \/ L_Clear(c)
  \/ L_Regate(c)
  \/ L_GetHist(c)
  \/ L_Read(c)
  \/ L_NewBit(c)

NextLock == Filler \/ \E c \in Consumers : Caller(c)

\* The filling thread and the callers on the histograms, the pipeline of
\* Spec at rest.
SpecLock == Init /\ [][NextLock]_vars

(***************************************************************************)
(* Properties.                                                             *)
(***************************************************************************)

\* The buffer source is Idle: no connector object and no producer thread.
Idle == fConnector = 0 /\ \A t \in ConnIds : ~Alive(t)

\* The consumer is not inside an attach-interface call.
AtRest == mainPc \in {"ready", "formula", "branch"}

\* The consumer is inside an attach call, after one of its Unattach() calls
\* has returned and before it starts the new connection.
AfterInnerUnattach == mainPc \in {"runfile", "openfile", "runonline", "runlist", "start"}

\* The thread is inside the locked block of Event::Process, lines 31-36.
InLockedBlock(t) == thr[t].pc \in {"P_do", "P_do2", "P_fill", "P_unlock"}

\* The thread is past the locked block of Event::Process, lines 37-38.
PastLockedBlock(t) == thr[t].pc \in {"P_fillall", "P_eval", "P_bad"}

\* The thread has begun to write the user object of its event and the row is
\* not yet committed.
WriteInProgress(t) == thr[t].pc \in {"P_do2", "P_fill"}

\* C1: when Unattach() has returned (called directly, or as the first step of
\* an attach call), the producer thread has fully exited: no read, unpack,
\* event fill or evaluation is in flight, and none starts until a new
\* connection is started.
C1_UnattachJoins ==
  ((AtRest /\ mainOp = "Unattach") \/ AfterInnerUnattach) => Idle

\* C1 witness: Unattach() has returned after it stopped a file loop that was
\* still running (the loop saw fRun cleared and left as "aborted").
C1_Witness ==
  /\ mainPc = "ready"
  /\ mainOp = "Unattach"
  /\ joined = "aborted"
  /\ Idle

\* C2: at most one producer loop is running in every reachable state.
C2_AtMostOneProducer == Cardinality({t \in ConnIds : Alive(t)}) <= 1

\* C2 witness: a connection runs that was started after an earlier connection
\* had been stopped and joined by the attach call.
C2_Witness ==
  /\ mainPc = "ready"
  /\ mainOp \in {"AttachFile", "AttachOnline"}
  /\ joined \in {"aborted", "nodata"}
  /\ \E t \in ConnIds : Alive(t) /\ fConnector = t

C4_NoReadDuringWrite ==
  ~(mainPc = "formula" /\ \E t \in ConnIds : WriteInProgress(t))

\* C5: a Process() call whose unpack step succeeded has driven exactly one
\* evaluation pass, over the row it committed, and no bad-event handler, by
\* the time it returns; no call ever drives more than one pass.
C5_OnePassPerSuccess ==
  \A t \in ConnIds :
    /\ thr[t].passes <= 1
    /\ (thr[t].pc = "P_ret" /\ thr[t].ok) =>
         (thr[t].passes = 1 /\ thr[t].bad = 0 /\ seen[Ev(t)] = tree[Ev(t)])
    /\ thr[t].pc \in {"while", "read", "readonline", "sleep", "unpack"} => thr[t].passes = 0

\* C5 witness: Process() returns after a successful unpack of a gamma event.
C5_Witness ==
  \E t \in ConnIds :
    thr[t].pc = "P_ret" /\ thr[t].ok /\ thr[t].ev = 1 /\ tree["gamma"].cal > 0

\* C6: a Process() call whose unpack step failed returns with the committed
\* row as it was when the call began, no evaluation pass, and exactly one
\* bad-event notification.
C6_FailureKeepsRow ==
  \A t \in ConnIds :
    (thr[t].pc = "P_ret" /\ ~thr[t].ok) =>
      (tree[Ev(t)] = thr[t].row0 /\ thr[t].passes = 0 /\ thr[t].bad = 1)

\* C6 witness: Process() returns after a failed unpack while the row holds an
\* event committed earlier.
C6_Witness ==
  \E t \in ConnIds :
    thr[t].pc = "P_ret" /\ ~thr[t].ok /\ thr[t].bad = 1 /\ tree[Ev(t)].cal > 0

\* C7: after UnpackBuffer() the producer loop goes back to its loop
\* condition, whether or not an event of the buffer was bad.
C7_BadEventNotFatal ==
  [][\A t \in ConnIds :
       (thr[t].pc = "unpacked" /\ thr'[t].pc # "unpacked") => thr'[t].pc = "while"]_vars

\* C7 witness: an online loop is about to read the next buffer after a buffer
\* with a bad event.
C7_Witness ==
  \E t \in ConnIds :
    thr[t].pc = "readonline" /\ thr[t].badBuf /\ conn[t].kind = "Online"

\* C8: when AttachFile has returned and the file could not be opened, the
\* open error was reported and the buffer source is Idle.
C8_OpenErrorLeavesIdle ==
  (AtRest /\ mainOp = "AttachFile" /\ ~fileOpen) => (lastErr = "OpenError" /\ Idle)

\* C8 witness: AttachFile has returned with the open error.
C8_Witness ==
  mainPc = "ready" /\ mainOp = "AttachFile" /\ ~fileOpen /\ lastErr = "OpenError"

\* C9: when AttachOnline has returned and the connection negotiation has
\* failed, the connect error was reported to the caller and no connector
\* object is left.
C9_ConnectErrorLeavesIdle ==
  \A t \in ConnIds :
    (AtRest /\ mainOp = "AttachOnline" /\ thr[t].exit = "connfail")
      => (lastErr = "ConnectError" /\ Idle)

\* C10: when the loop of a file connection with kStopAtEnd has ended at a
\* failed read and no call is in progress, the connection is destroyed and
\* the buffer source is Idle.
C10_EndOfStreamLeavesIdle ==
  \A t \in ConnIds :
    (AtRest /\ conn[t].kind = "File" /\ conn[t].kStopAtEnd /\ thr[t].exit = "done")
      => Idle

\* C11: the loop of a file connection without kStopAtEnd ends only when
\* Unattach was requested (fRun cleared): a failed read leads to the sleep and
\* back to the loop condition, never out of the loop.
C11_RetryUntilUnattach ==
  \A t \in ConnIds :
    (conn[t].kind = "File" /\ ~conn[t].kStopAtEnd) =>
      /\ thr[t].pc = "after" => ~conn[t].fRun
      /\ thr[t].pc = "exited" => thr[t].exit = "aborted"
      /\ (thr[t].retry /\ Alive(t)) => thr[t].pc \in {"sleep", "while", "read", "unpack", "after"}

\* C11 witness: after a failed read and the sleep, the loop has read a buffer
\* that arrived later and is about to unpack it.
C11_Witness ==
  \E t \in ConnIds :
    /\ conn[t].kind = "File" /\ ~conn[t].kStopAtEnd /\ conn[t].fRun
    /\ thr[t].pc = "unpack" /\ thr[t].retry

\* C12: in the online loop a receiveEvent() that finds no data ends the loop
\* only when the stop was requested; otherwise the thread waits in poll(1000),
\* and from the poll it goes back to receiveEvent() unless the poll itself
\* reports the connection gone.
C12_NoDataPolls ==
  [][\A t \in ConnIds :
       /\ (thr[t].pc = "readonline" /\ thr'[t].exit = "nodata") => ~conn[t].fRun
       /\ (thr[t].pc = "readonline" /\ thr'[t].pc = "readonline") => thr'[t] = thr[t]
       /\ (thr[t].pc = "poll" /\ thr'[t].pc # "poll") =>
            (thr'[t].pc = "readonline" \/ thr'[t].exit = "pollend")]_vars

\* C12 witness: the online loop waits in the poll while no stop is requested.
C12_Witness ==
  \E t \in ConnIds :
    thr[t].pc = "poll" /\ conn[t].kind = "Online" /\ conn[t].fRun /\ fConnector = t

\* C13: when the loop of an online connection has ended at a read error and
\* no call is in progress, the buffer source is Idle.
C13_ReadErrorLeavesIdle ==
  \A t \in ConnIds :
    (AtRest /\ conn[t].kind = "Online" /\ thr[t].exit = "readerror") => Idle

\* C14: Unattach() called when no connection is active changes nothing and
\* returns with the buffer source Idle.
C14_UnattachIdempotent ==
  [][(mainPc = "unattach" /\ mainOp = "Unattach" /\ fConnector = 0 /\ mainPc' # mainPc) =>
       /\ mainPc' = "ready"
       /\ Idle'
       /\ UNCHANGED <<fConnector, conn, thr, nConn, remaining, fileOpen, fBuffer,
                      gCINTMutex, gDataMutex, data, tree, seen, joined, lastErr>>]_vars

\* C14 witness: a second Unattach() has returned, after an earlier call
\* stopped the connection, without having joined anything.
C14_Witness ==
  /\ mainPc = "ready"
  /\ mainOp = "Unattach"
  /\ joined = "none"
  /\ nConn > 0
  /\ Idle

\* C15: Unattach() always eventually returns.
C15_UnattachReturns ==
  (mainOp = "Unattach" /\ mainPc \in {"unattach", "join"}) ~> (mainPc = "ready")

\* C15 witness: Unattach() has returned after it stopped an online loop that
\* left through the cancellation check of its poll loop.
C15_Witness ==
  /\ mainPc = "ready"
  /\ mainOp = "Unattach"
  /\ joined = "nodata"
  /\ Idle

RECURSIVE SumPow(_)
SumPow(S) == IF S = {} THEN 0
             ELSE LET i == CHOOSE j \in S : TRUE IN 2^i + SumPow(S \ {i})

\* The set bits among the low NBITS bits of a word: the bits that add up to
\* the word modulo 2^NBITS.
BitsOf(v) == CHOOSE S \in SUBSET (0..(NBITS - 1)) : SumPow(S) = v % 2^NBITS

\* The bins a parameter result belongs to: for a BitHist the bin of each set
\* bit, otherwise the bin of the axis whose interval holds the value, if any.
ExpectedBins(h, row) ==
  IF h.kind = "Bit"
    THEN {i + 1 : i \in BitsOf(ParamOf(h, row))}
    ELSE {b \in 1..h.axis.n :
            /\ (ParamOf(h, row) - h.axis.low) * h.axis.n >= (b - 1) * (h.axis.high - h.axis.low)
            /\ (ParamOf(h, row) - h.axis.low) * h.axis.n < b * (h.axis.high - h.axis.low)}

\* The histogram at position i of the list has its array changed by one
\* count in each bin of the set and in no other cell, and every other
\* histogram is as it was.
Incremented(i, bins) ==
  /\ Len(fgList') = Len(fgList)
  /\ \A j \in 1..Len(fgList) :
       IF j = i
         THEN /\ fgList'[j] = [fgList[j] EXCEPT !.arr = fgList'[j].arr]
              /\ \A b \in DOMAIN fgList[j].arr :
                   fgList'[j].arr[b] = fgList[j].arr[b] + (IF b \in bins THEN 1 ELSE 0)
         ELSE fgList'[j] = fgList[j]

C18_BitMaskFill ==
  [][\A i \in 1..Len(fgList) :
       (H_Fill(i) /\ fgList[i].kind = "Bit" /\ GateOf(fgList[i], fgTree) # 0)
         => /\ hOp'.ret = Cardinality(BitsOf(ParamOf(fgList[i], fgTree)))
            /\ Incremented(i, {k + 1 : k \in BitsOf(ParamOf(fgList[i], fgTree))})]_vars

\* C18 witness: a BitHist was filled from a word with bit 0 and a bit above
\* the low NBITS set: one count in the bin of bit 0, none elsewhere.
C18_Witness ==
  /\ hOp.op = "Fill" /\ hOp.ret = 1 /\ nFill = 1
  /\ Len(fgList) = 1 /\ fgList[1].kind = "Bit"
  /\ fgTree.e = 2^NBITS + 1
  /\ fgList[1].arr[1] = 1
  /\ \A b \in DOMAIN fgList[1].arr : b # 1 => fgList[1].arr[b] = 0

\* C19: Regate with a gate text that is not valid reports failure and leaves
\* the gate, the parameter and the bins of the histogram, and every other
\* histogram, as they were.
C19_RegateFailureKeepsGate ==
  [][\A i \in 1..Len(fgList), text \in GateTexts :
       (H_Regate(i, text) /\ ~Compile(text))
         => hOp'.ret = -1 /\ hOp'.err = "CompileError" /\ fgList' = fgList]_vars

\* C19 witness: a Regate has failed on a histogram that holds a count and a
\* gate on the field g.
C19_Witness ==
  /\ hOp.op = "Regate" /\ hOp.ret = -1
  /\ \E i \in 1..Len(fgList) :
       fgList[i].gate = "g" /\ \E b \in DOMAIN fgList[i].arr : fgList[i].arr[b] > 0

\* C20: a creation with a name that is already in the list fails with the
\* duplicate-name error, creates no histogram and leaves the list and the
\* directory as they were.
C20_DuplicateNameRejected ==
  [][\A name \in HistNames, gate \in GateTexts, param \in ParamTexts :
       ((H_NewBit(name, gate, param) \/ \E axis \in Axes : H_New(name, gate, param, axis))
          /\ name \in Names(fgList))
         => /\ fgList' = fgList
            /\ gDirectory' = gDirectory
            /\ hOp'.err = "DuplicateName"]_vars

\* C21: after every step each histogram of the list has a valid gate and a
\* valid parameter formula, and a creation that reports a formula error
\* leaves the list and the directory as they were.
C21_AlwaysBound ==
  [][/\ \A i \in 1..Len(fgList') :
          Compile(fgList'[i].gate) /\ Compile(fgList'[i].param)
     /\ (hOp'.op \in {"New", "NewBit"} /\ hOp'.err = "CompileError")
          => fgList' = fgList /\ gDirectory' = gDirectory]_vars

\* C21 witness: a creation has failed on a formula while a histogram exists.
C21_Witness ==
  /\ hOp.op = "NewBit" /\ hOp.err = "CompileError"
  /\ Len(fgList) = 1
  /\ gDirectory = {1}

\* C30: Clear() of a histogram leaves every cell of its array at zero and
\* its name, kind, axis, gate and parameter, every other histogram and the
\* directory as they were.
C30_ClearZeroesBins ==
  [][\A i \in 1..Len(fgList) :
       H_Clear(i) =>
         /\ \A b \in DOMAIN fgList[i].arr : fgList'[i].arr[b] = 0
         /\ fgList' = [fgList EXCEPT ![i].arr = fgList'[i].arr]
         /\ gDirectory' = gDirectory]_vars

\* C30 witness: a BitHist that was filled from a word with both low bits set
\* has been cleared.
C30_Witness ==
  /\ hOp.op = "Clear" /\ nFill >= 1
  /\ Len(fgList) = 1 /\ fgList[1].kind = "Bit" /\ fgList[1].gate = "1"
  /\ fgTree.e = 3
  /\ \A b \in DOMAIN fgList[1].arr : fgList[1].arr[b] = 0

RECURSIVE SumCells(_, _)
SumCells(arr, b) == IF b \notin DOMAIN arr THEN 0 ELSE arr[b] + SumCells(arr, b + 1)

\* The total count of a bin array.
Total(arr) == SumCells(arr, 0)

\* DoFill() of the histogram at position i has filled some of the bins of
\* the event and has others still to fill.
Partial(i) ==
  /\ pPc = "bits" /\ pIdx = i
  /\ \E j \in 0..(pBit - 1) : BitSet(ParamOf(fgList[i], fgTree), j)
  /\ \E j \in pBit..(NBITS - 1) : BitSet(ParamOf(fgList[i], fgTree), j)

\* A FillAll() pass over the list is in progress.
PassInProgress == pPc \in {"next", "bits"}

C23_NoTornSnapshot ==
  [][/\ \A c \in Consumers : L_GetHist(c) => ~Partial(cons[c].h)
     /\ \A k, l \in 1..Len(snaps') :
          (k < l /\ snaps'[k].h = snaps'[l].h /\ snaps'[k].h \notin cleared')
            => Total(snaps'[k].arr) <= Total(snaps'[l].arr)]_vars

\* C23 witness: two copies of a histogram that was never cleared, made
\* before and after a fill of an event with two set bits.
C23_Witness ==
  /\ Len(snaps) = 2 /\ cleared = {}
  /\ Total(snaps[1].arr) = 0
  /\ Total(snaps[2].arr) = 2

\* C24: a fill of a histogram and a Regate, Clear, GetHist, Draw or GetGate
\* on it never overlap: each of them runs holding the lock, and the lock
\* has one holder at most.
C24_FillExcludesCalls ==
  /\ Cardinality(fgMutex) <= 1
  /\ PassInProgress => 0 \in fgMutex
  /\ \A c \in Consumers :
       cons[c].pc = "in" => /\ c \in fgMutex
                            /\ ~(pPc = "bits" /\ pIdx = cons[c].h)

\* C24 witness: a caller is inside Clear() holding the lock while the
\* filling thread waits for it to start its pass.
C24_Witness ==
  \E c \in Consumers :
    /\ cons[c].pc = "in" /\ cons[c].op = "Clear"
    /\ fgMutex = {c}
    /\ pPc = "call"

\* C25: while the filling thread is inside the fill of one histogram, a
\* caller that is in no call can enter Clear(), Regate() or GetHist() of
\* any other histogram.
C25_OtherHistogramNotBlocked ==
  \A c \in Consumers, i \in 1..Len(fgList) :
    (pPc = "bits" /\ pIdx # i /\ \A d \in Consumers : cons[d].pc = "idle")
      => ENABLED L_Enter(c, [op |-> "Clear", h |-> i, text |-> ""])

C27_ListLockFreeDuringFill ==
  pPc = "bits" =>
    /\ 0 \notin fgMutex
    /\ \A c \in Consumers :
         (\A d \in Consumers : cons[d].pc = "idle")
           => ENABLED L_Enter(c, [op |-> "GetNumber", h |-> 0, text |-> ""])

\* C28: a FillAll() pass calls DoFill() on a histogram it has not yet called
\* it on, goes on to the next histogram after a DoFill() that failed and
\* reports the failure, and ends having called DoFill() on every histogram
\* of the list.
C28_EveryHistogramAttempted ==
  [][F_Next =>
       IF pIdx > Len(fgList)
         THEN pDone = 1..Len(fgList)
         ELSE /\ pIdx \notin pDone
              /\ pDone' = pDone \cup {pIdx}
              /\ hOp' # hOp => hOp'.err = "EvalError" /\ hOp'.ret = pIdx /\ pIdx' = pIdx + 1]_vars

\* C28 witness: a pass has ended in which DoFill() of the first histogram
\* failed and the second histogram was filled.
C28_Witness ==
  /\ pPc = "idle" /\ pDone = {1, 2} /\ Len(fgList) = 2
  /\ hOp = Result("FillAll", 1, "EvalError")
  /\ Total(fgList[1].arr) = 0
  /\ Total(fgList[2].arr) = 2
  /\ cleared = {}

\* C31: the copy GetHist() would return right after Clear() has every cell
\* at zero, and every Fill() adds its return value to the total of the copy
\* GetHist() would return, so that after Clear() and N fills the total is
\* the sum of the N return values.
C31_ClearFillRoundTrip ==
  [][\A i \in 1..Len(fgList) :
       /\ H_Clear(i) => \A b \in DOMAIN fgList[i].arr : SnapContents(Clone(i))'[b] = 0
       /\ H_Fill(i) => Total(SnapContents(Clone(i))') =
                         Total(SnapContents(Clone(i))) + hOp'.ret]_vars

\* C31 witness: a BitHist was filled twice and its total is the return value
\* of the second Fill(), as it is when a Clear() came between the two.
C31_Witness ==
  /\ hOp.op = "Fill" /\ hOp.ret = 2 /\ nFill = 2
  /\ Len(fgList) = 1 /\ fgList[1].kind = "Bit" /\ fgList[1].gate = "1"
  /\ fgTree.e = 3
  /\ Total(fgList[1].arr) = 2

\* C32: Regate with the gate text the histogram has returns 0 and leaves
\* the histogram, bins and formulas, and every other histogram as they were,
\* so that every later fill finds what it would have found without the call.
C32_RegateSameGate ==
  [][\A i \in 1..Len(fgList) :
       H_Regate(i, fgList[i].gate) => hOp'.ret = 0 /\ fgList' = fgList]_vars

\* C32 witness: a Regate has succeeded on a histogram gated on the field g
\* that holds counts.
C32_Witness ==
  /\ hOp.op = "Regate" /\ hOp.ret = 0
  /\ Len(fgList) = 1 /\ fgList[1].gate = "g"
  /\ Total(fgList[1].arr) = 2

\* C34: the lock handles of Event::Process release at the end of their scope
\* on every path: a producer that is not between taking the interpreter lock
\* and the end of the locked block, in particular one whose Process() has
\* returned after a successful or after a failed unpack, holds neither the
\* interpreter lock nor the event-record lock.
C34_ScopeEndReleases ==
  \A t \in ConnIds :
    (thr[t].pc # "P_data" /\ ~InLockedBlock(t)) =>
      (t \notin gCINTMutex /\ t \notin gDataMutex)

\* C34 witness: Process() has returned from a failed unpack, after an
\* earlier event was unpacked and evaluated, and the thread holds no lock.
C34_Witness ==
  \E t \in ConnIds :
    /\ thr[t].pc = "P_ret" /\ ~thr[t].ok /\ thr[t].bad = 1
    /\ \E e \in EventSet : filled[e] >= 1
    /\ t \notin gCINTMutex /\ t \notin gDataMutex

\* C35: AttachList attaches to the files of the manifest one after the
\* other, each with stopAtEnd set: when the running connection has been
\* stopped, RunList goes on to open a file of the manifest with stopAtEnd
\* set.
C35_ListAttachesFiles ==
  [][mainPc = "runlist" => (mainPc' = "openfile" /\ stopArg')]_vars

\* C39: AttachFile stops the running connection before it tries to open the
\* file: when the open is attempted the buffer source is Idle, and when the
\* open fails the call returns with the open error and the buffer source is
\* still Idle, not Running on the old source.
C39_StopBeforeOpen ==
  [][mainPc = "openfile" =>
       /\ Idle
       /\ ~fileOpen' => (lastErr' = "OpenError" /\ mainPc' = "ready" /\ Idle')]_vars

\* C39 witness: AttachFile has returned with the open error after it
\* stopped and joined a connection whose loop was still running.
C39_Witness ==
  /\ mainPc = "ready" /\ mainOp = "AttachFile" /\ lastErr = "OpenError"
  /\ joined = "aborted"
  /\ Idle

\* C38: the producer and the consumer cannot deadlock: a producer holds the
\* event-record lock only while it holds the interpreter lock, which it took
\* first; the consumer never holds the interpreter lock and holds the
\* event-record lock only inside a field registration, never inside
\* Unattach(); and an Unattach() that joins the producer while the producer
\* is about to take one of the two locks completes.
C38_NoDeadlock ==
  /\ [](/\ \A t \in ConnIds : t \in gDataMutex => t \in gCINTMutex
        /\ 0 \notin gCINTMutex
        /\ 0 \in gDataMutex => mainPc = "branch")
  /\ \A t \in ConnIds :
       (mainPc = "join" /\ fConnector = t /\ thr[t].pc \in {"P_cint", "P_data"})
         ~> (mainPc # "join" /\ ~Alive(t))

\* C38 witness: the consumer is joining a producer that holds the interpreter
\* lock and has not yet taken the event-record lock.
C38_Witness ==
  /\ mainPc = "join"
  /\ fConnector \in ConnIds
  /\ thr[fConnector].pc = "P_data"
  /\ gCINTMutex = {fConnector} /\ gDataMutex = {}

\* C40: a histogram is added to the list only by a caller that holds the
\* lock of the list, while no evaluation pass is inside the list, and every
\* histogram of the list, the added one included, has its internal histogram
\* and valid formulas: no pass and no lookup finds an unbound histogram.
C40_AddedWhenComplete ==
  [][/\ \A i \in 1..Len(fgList') :
          /\ DOMAIN fgList'[i].arr = 0..(fgList'[i].axis.n + 1)
          /\ Compile(fgList'[i].gate) /\ Compile(fgList'[i].param)
     /\ Len(fgList') > Len(fgList) =>
          /\ \E c \in Consumers : cons[c].op = "NewBit" /\ fgMutex = {c}
          /\ pPc \notin {"next", "bits"}]_vars

\* C40 witness: a second histogram was added to the list and an evaluation
\* pass has reached it and is about to fill it.
C40_Witness ==
  /\ Len(fgList) = 2 /\ fgList[2].kind = "Bit" /\ fgList[2].name = "h2"
  /\ pPc = "bits" /\ pIdx = 2 /\ pBit = 0
  /\ fgTree.e = 3 /\ fgTree.g = 0
  /\ fgList[2].arr = TH1D_New(BitAxis)

\* C33: the list holds exactly the live histograms: a successful creation
\* adds one entry, the destruction of a histogram removes its entry and no
\* other, DeleteAll() leaves the list and the directory empty, no other call
\* changes the number of entries, GetNumber() returns that number, Find()
\* returns a histogram exactly when the list has one of the name, and the
\* directory never names a histogram that is not in the list.
C33_RegistryHoldsLive ==
  [][/\ (hOp'.op \in {"New", "NewBit"} /\ hOp'.ret = 1)
          => Len(fgList') = Len(fgList) + 1
     /\ \A i \in 1..Len(fgList) :
          H_Delete(i) =>
            /\ Len(fgList') = Len(fgList) - 1
            /\ \A j \in 1..Len(fgList') :
                 fgList'[j] = fgList[IF j < i THEN j ELSE j + 1]
     /\ H_DeleteAll => (Len(fgList') = 0 /\ gDirectory' = {})
     /\ hOp'.op = "GetNumber" => hOp'.ret = Len(fgList')
     /\ \A name \in HistNames :
          H_Find(name) => (hOp'.ret # 0 <=> \E j \in 1..Len(fgList') : fgList'[j].name = name)
     /\ (\/ hOp'.op \notin {"New", "NewBit", "Delete", "DeleteAll"}
         \/ (hOp'.op \in {"New", "NewBit"} /\ hOp'.ret = 0))
          => Len(fgList') = Len(fgList)
     /\ gDirectory' \subseteq 1..Len(fgList')]_vars

\* C33 witness: the first of two histograms has been destroyed and the list
\* holds the other one, with its counts, at the first position.
C33_Witness ==
  /\ hOp.op = "Delete"
  /\ Len(fgList) = 1 /\ fgList[1].name = "h2" /\ fgList[1].kind = "Bit"
  /\ Total(fgList[1].arr) = 2
  /\ gDirectory = {1}

\* The value x lies in bin b of the axis: b is one of the n bins of equal
\* width between low and high, and x is at or above its lower and below its
\* upper edge.
InBin(axis, b, x) ==
  /\ b \in 1..axis.n
  /\ x * axis.n >= axis.low * axis.n + (b - 1) * (axis.high - axis.low)
  /\ x * axis.n < axis.low * axis.n + b * (axis.high - axis.low)

\* C36: Fill() of a Gamma histogram whose gate is zero changes nothing and
\* returns 0; when the gate passes every bin grows by the number of
\* configured parameters whose value lies in it, the underflow and overflow
\* cells stay as they are, and Fill() returns the number of increments.
C36_GammaFill ==
  [][\A i \in 1..Len(fgList) :
       (H_Fill(i) /\ fgList[i].kind = "Gamma") =>
         LET h == fgList[i]
             Hits(b) == {p \in 1..Len(h.params) :
                           /\ EvalInstance(h.gate, fgTree) # 0
                           /\ InBin(h.axis, b, EvalInstance(h.params[p], fgTree))}
         IN /\ \A b \in 1..h.axis.n :
                 fgList'[i].arr[b] = h.arr[b] + Cardinality(Hits(b))
            /\ fgList'[i].arr[0] = h.arr[0]
            /\ fgList'[i].arr[h.axis.n + 1] = h.arr[h.axis.n + 1]
            /\ hOp'.ret = Cardinality(UNION {Hits(b) : b \in 1..h.axis.n})]_vars

\* C36 witness: one event has incremented the same bin of a Gamma histogram
\* twice, once for each of its two parameters, and Fill() returned 2.
C36_Witness ==
  /\ hOp.op = "Fill" /\ hOp.ret = 2 /\ nFill = 1
  /\ Len(fgList) = 1 /\ fgList[1].kind = "Gamma"
  /\ fgTree = [e |-> 1, g |-> 1]
  /\ fgList[1].arr[1] = 2

\* C37: a Summary histogram starts with every slice of the parameter axis
\* equal to an empty one-dimensional histogram of the summary axis, and on
\* every fill the slice at index p becomes what the fill of a
\* one-dimensional histogram of parameter p with the same gate, the same
\* binning and the same contents gives: after any sequence of events the
\* slice equals that one-dimensional histogram.
C37_SummarySlices ==
  [][\A i \in 1..Len(fgList') :
       fgList'[i].kind = "Summary" =>
         LET h == fgList'[i]
             Slice(old, p) == HistDoFill([name |-> h.name, kind |-> "Hist", gate |-> h.gate,
                                          param |-> h.params[p], axis |-> h.axis,
                                          arr |-> old.arr[p]], fgTree)
         IN /\ i > Len(fgList) =>
                 \A p \in 1..Len(h.params) : h.arr[p] = TH1D_New(h.axis)
            /\ (i <= Len(fgList) /\ (H_Fill(i) \/ H_FillAll)) =>
                 \A p \in 1..Len(h.params) : h.arr[p] = Slice(fgList[i], p).arr
            /\ (i <= Len(fgList) /\ H_Fill(i)) =>
                 hOp'.ret = Cardinality({p \in 1..Len(h.params) : Slice(fgList[i], p).ret = 1})
            /\ (i <= Len(fgList) /\ ~H_Fill(i) /\ ~H_FillAll) => h = fgList[i]]_vars

\* C37 witness: one event has filled the two slices of a Summary histogram
\* of the parameters g and e, each in the bin of its own parameter's value.
C37_Witness ==
  /\ hOp.op = "Fill" /\ hOp.ret = 2 /\ nFill = 1
  /\ Len(fgList) = 1 /\ fgList[1].kind = "Summary" /\ fgList[1].params = <<"g", "e">>
  /\ fgTree = [e |-> 2, g |-> 1]
  /\ fgList[1].arr[1][1] = 1 /\ fgList[1].arr[1][2] = 0
  /\ fgList[1].arr[2][2] = 1 /\ fgList[1].arr[2][1] = 0

====
